---- MODULE Spec2Model ----
(***************************************************************************)
(* Ephemeral-resource orchestration of sysadmin-ai-next-tests: the droplet *)
(* controller, the SSH driver, the cost and session guards, and the entry  *)
(* points that compose them (run_single_test, run_comprehensive_test,      *)
(* quick_test, verify_environment and the pytest session of conftest.py).  *)
(*                                                                         *)
(* A process is one run of an entry point.  The provider (droplets, keys)  *)
(* is shared by the processes.  One step of the model is one call or one   *)
(* loop iteration of the source; the provider's answers, the remote        *)
(* commands' exit codes and the signals are the environment's choices.     *)
(***************************************************************************)
EXTENDS Integers, Sequences, FiniteSets, TLC

(***************************************************************************)
(* Bounds of the model.                                                    *)
(***************************************************************************)
\* tests one pytest session runs (each requests the droplet fixture)
MaxTests == 2
\* iterations of _wait_for_active's loop before `timeout` has elapsed
\* (timeout / 5 s sleep; 300 / 5 in the source)
MaxWait == 2
\* the retry budget of a connect loop (20 and 12 in the source)
MaxRetries == 2
\* provider calls of one process that fail with an API error
MaxFaults == 1
\* record_droplet() calls of a direct user of the CostGuard
MaxRecords == 3
\* get_or_create_ssh_key() calls of a direct user of the controller
MaxKeyCalls == 2
\* SSHClient objects one SSHDriver creates by connect() calls
MaxConnects == 2
\* OSMatrix objects one process constructs
MaxCatalogs == 2
\* max_session_minutes, in ticks of the model's clock
MaxSessionMinutes == 1

(***************************************************************************)
(* Program constants.                                                      *)
(***************************************************************************)
\* CostGuard.max_droplets default
DefaultMaxDroplets == 6
\* CostGuard(max_droplets=1, ...) in the four scripts
ScriptMaxDroplets == 1
\* MAX_TEST_DROPLETS not set in the environment
EnvUnset == 0 - 1

Workers == {"w1", "w2"}
ScriptKinds == {"single", "comp", "quick", "verify"}
Kinds == ScriptKinds \cup {"pytest"}
\* a caller that uses one component directly: the CostGuard, the
\* DropletController's droplet methods, its get_or_create_ssh_key, an
\* SSHDriver, or the OS catalog
CallerKinds == {"guard", "controller", "keys", "ssh", "matrix"}

TestTag == "sysadmin-ai-next-test"
PytestKeyName == "sysadmin-ai-next-key"

\* a droplet of another project in the same account
External == <<"ext", 0>>
DropletIds == (Workers \X (1..MaxTests)) \cup {External}
Unbound == <<"unbound", 0>>
Owner(d) == d[1]
TagOf(d) == IF d = External THEN "other" ELSE TestTag

\* os_matrix.py:24-82, two of the six targets; each image is "<name>-x64"
TargetNames == {"ubuntu-24-04", "debian-12"}
DefaultImage(n) == n \o "-x64"

NoKey == [id |-> "none", name |-> "none", content |-> "none"]
\* a key record left at the provider by an earlier session
PreKey == [id |-> "pre", name |-> PytestKeyName, content |-> "pre"]

VARIABLES
    env,        \* process environment: token, openai, maxDroplets
    kind,       \* entry point each process runs
    pc,         \* position of each process
    exc,        \* exception in flight while a finally block runs
    ret,        \* pending return value while a finally block runs
    exitCode,   \* "running", "0", "1" or "signal"
    failed,     \* pytest: some test failed or errored
    cloud,      \* provider: status of every droplet id
    keys,       \* provider: the SSH key records
    tracked,    \* DropletController._tracked_droplets
    submitted,  \* creation requests each process has submitted
    waited,     \* _wait_for_active: sleeps since `start`
    pending,    \* destroy_all: listed droplets not yet iterated
    sweepMode,  \* who called destroy_all: "none", "teardown", "handler"
    guardInstalled, \* SessionGuard constructed (signal handlers set)
    droplet,    \* the orchestrator's local `droplet`
    doKey,      \* the orchestrator's local `do_key`
    created,    \* CostGuard._droplets_created
    maxDroplets,\* CostGuard.max_droplets
    minutes,    \* minutes since CostGuard._start_time
    client,     \* SSHDriver._client: "none", "idle", "connected"
    unreleased, \* SSHClient objects created and not closed
    attempt,    \* connect: the loop's `attempt`
    outer,      \* run_comprehensive_test: the outer connect loop's `attempt`
    step,       \* index of the next verification step
    results,    \* the recorded pass/fail results
    testsLeft,  \* pytest: tests of the session not yet started
    reports,    \* report artifacts written
    images,     \* os_matrix: the image of each OSTarget of DEFAULT_TARGETS
    sftp,       \* SSHDriver: secondary transfer channels opened and not closed
    faults,     \* history: provider API errors injected
    sigAt,      \* history: "none", "masked", or how the signal was taken
    hist,       \* history: what the run has done
    harmed      \* history: resources destroyed under a running owner

\* what the orchestration itself never writes
envVars == <<env, images, sftp>>
procVars == <<kind, pc, exc, ret, exitCode, failed>>
provVars == <<cloud, keys>>
ctlVars == <<tracked, submitted, waited, pending, sweepMode, guardInstalled>>
orchVars == <<droplet, doKey, step, results, testsLeft, reports, outer>>
guardVars == <<created, maxDroplets, minutes>>
sshVars == <<client, unreleased, attempt>>
histVars == <<faults, sigAt, hist, harmed>>
vars == <<envVars, procVars, provVars, ctlVars, orchVars, guardVars, sshVars, histVars>>

NoHist == [cleanup |-> "none", destroyTried |-> FALSE, revokeTried |-> FALSE,
           fatal |-> "none", verdict |-> "none", unguarded |-> FALSE,
           handlerSweep |-> FALSE, sweepFailed |-> FALSE,
           destroyEscaped |-> FALSE, nonzero |-> FALSE, mispass |-> FALSE,
           named |-> Unbound, sweepGone |-> FALSE]

(***************************************************************************)
(* Per-entry-point tables.                                                 *)
(***************************************************************************)
\* the run uploads a key: run_single_test.py:116, run_comprehensive_test.py:140,
\* conftest.py:78; quick_test and verify_environment create no key
HasKey(k) == k \in {"single", "comp", "pytest"}

\* the positions a `try` with a `finally` covers.  run_single_test.py:133-181
\* starts its try after create and record_droplet; the other scripts
\* (run_comprehensive_test.py:152, quick_test.py:52, verify_environment.py:53)
\* start it before create
TryPcs(k) ==
    IF k = "single" THEN {"connect", "cloudinit", "checks", "sshclose"}
    ELSE IF k \in {"comp", "quick", "verify"}
    THEN {"create", "wait", "record", "connect", "connect_retry", "checks",
          "sshclose", "ping"}
    ELSE {}

\* `except Exception as e: ... return 1` between try and finally:
\* quick_test.py:74-76, verify_environment.py:91-94
CatchesError(k) == k \in {"quick", "verify"}

\* controller.destroy(droplet) of the finally block is inside try/except:
\* run_comprehensive_test.py:229-233, quick_test.py:79-83,
\* verify_environment.py:99-103; run_single_test.py:184 calls it bare
DestroyGuarded(k) == k \in {"comp", "quick", "verify"}

\* the finally block ends with controller.list_by_tag(...):
\* run_comprehensive_test.py:242, quick_test.py:86, verify_environment.py:106
Requeries(k) == k \in {"comp", "quick", "verify"}

\* a report file is written after the finally block
WritesReport(k) == k \in {"single", "comp", "verify"}

\* connect(retries=...): 20 in run_single_test.py:147, 1 in
\* run_comprehensive_test.py:176, the default 12 in conftest.py:157
Retries(k) == IF k = "comp" THEN 1 ELSE MaxRetries

\* CostGuard.__post_init__: the environment overrides the constructor's value
PostInit(m) == IF env.maxDroplets # EnvUnset THEN env.maxDroplets ELSE m

\* the limit of the CostGuard an entry point constructs
GuardMaxDroplets(k) ==
    PostInit(IF k = "pytest" THEN DefaultMaxDroplets ELSE ScriptMaxDroplets)

\* the verification steps: rec = a result is recorded, text = passing also
\* needs a marker in stdout
Plain == [rec |-> TRUE, text |-> FALSE]
Silent == [rec |-> FALSE, text |-> FALSE]
Marked == [rec |-> TRUE, text |-> TRUE]
Steps(k) ==
    IF k = "single" THEN <<Plain, Plain, Plain, Plain>>
    ELSE IF k = "comp"
    THEN <<Plain, Plain, Silent, Plain, Silent, Marked>>
         \o (IF env.openai THEN <<Marked>> ELSE <<>>)
    ELSE <<>>

RECURSIVE NumRec(_)
NumRec(s) == IF s = <<>> THEN 0
             ELSE (IF Head(s).rec THEN 1 ELSE 0) + NumRec(Tail(s))

AllPassed(rs) == \A i \in 1..Len(rs) : rs[i]

Running(w) == pc[w] \notin {"exit", "off"}
CanFault(w) == faults[w] < MaxFaults
Live(d) == cloud[d] \in {"new", "active"}
Mine(w) == {d \in DropletIds : Owner(d) = w}
KeyName(w) == IF kind[w] = "pytest" THEN PytestKeyName ELSE "test-key-" \o w

\* history: the fatal failure of a script's run or of a direct call
Fatal(w, what) ==
    IF kind[w] \in ScriptKinds \cup CallerKinds THEN what ELSE hist[w].fatal

\* history: the droplet a TimeoutError's message names
Named(w, d) ==
    IF kind[w] \in ScriptKinds \cup CallerKinds THEN d ELSE hist[w].named

Remove(s, x) == SelectSeq(s, LAMBDA y : y # x)

(***************************************************************************)
(* Initial states.                                                         *)
(***************************************************************************)
InitCommon ==
    /\ exc = [w \in Workers |-> "none"]
    /\ ret = [w \in Workers |-> "none"]
    /\ exitCode = [w \in Workers |-> "running"]
    /\ cloud = [d \in DropletIds |-> IF d = External THEN "active" ELSE "absent"]
    /\ tracked = [w \in Workers |-> <<>>]
    /\ submitted = [w \in Workers |-> 0]
    /\ waited = [w \in Workers |-> 0]
    /\ pending = [w \in Workers |-> {}]
    /\ sweepMode = [w \in Workers |-> "none"]
    /\ guardInstalled = [w \in Workers |-> FALSE]
    /\ droplet = [w \in Workers |-> Unbound]
    /\ doKey = [w \in Workers |-> NoKey]
    /\ created = [w \in Workers |-> 0]
    /\ maxDroplets = [w \in Workers |-> 0]
    /\ minutes = [w \in Workers |-> 0]
    /\ client = [w \in Workers |-> "none"]
    /\ unreleased = [w \in Workers |-> 0]
    /\ attempt = [w \in Workers |-> 0]
    /\ outer = [w \in Workers |-> 0]
    /\ step = [w \in Workers |-> 1]
    /\ results = [w \in Workers |-> <<>>]
    /\ failed = [w \in Workers |-> FALSE]
    /\ reports = [w \in Workers |-> 0]
    /\ hist = [w \in Workers |-> NoHist]
    /\ harmed = [droplets |-> {}, keys |-> {}]
    /\ images = [n \in TargetNames |-> DefaultImage(n)]
    /\ sftp = [w \in Workers |-> 0]

\* one process runs one of the entry points
InitSolo ==
    /\ \E k \in Kinds : kind = [w \in Workers |-> IF w = "w1" THEN k ELSE "none"]
    /\ pc = [w \in Workers |-> IF w = "w1" THEN "start" ELSE "off"]
    /\ \E t \in BOOLEAN, o \in BOOLEAN, m \in EnvUnset..MaxTests :
          /\ env = [token |-> t, openai |-> o, maxDroplets |-> m]
          /\ (kind["w1"] # "comp" => o = FALSE)
          /\ (kind["w1"] # "pytest" => m \in {EnvUnset, 0})
    /\ keys \in {{}, {PreKey}}
    /\ (kind["w1"] # "pytest" => keys = {})
    /\ testsLeft = [w \in Workers |-> MaxTests]
    /\ faults = [w \in Workers |-> 0]
    /\ sigAt = [w \in Workers |-> "none"]

\* run_tests.py:29-35 starts pytest with parallel workers (-n 6); here two
\* workers with one test each, a provider whose API does not fail, and no
\* signal
InitParallel ==
    /\ kind = [w \in Workers |-> "pytest"]
    /\ pc = [w \in Workers |-> "start"]
    /\ env = [token |-> TRUE, openai |-> FALSE, maxDroplets |-> EnvUnset]
    /\ keys = {}
    /\ testsLeft = [w \in Workers |-> 1]
    /\ faults = [w \in Workers |-> MaxFaults]
    /\ sigAt = [w \in Workers |-> "masked"]

Init == InitCommon /\ (InitSolo \/ InitParallel)

(***************************************************************************)
(* Control flow: normal continuation, process exit, exception propagation. *)
(***************************************************************************)
Goto(w, p) ==
    /\ pc' = [pc EXCEPT ![w] = p]
    /\ UNCHANGED <<kind, exc, ret, exitCode, failed>>

Exit(w, code) ==
    /\ pc' = [pc EXCEPT ![w] = "exit"]
    /\ exitCode' = [exitCode EXCEPT ![w] = code]
    /\ UNCHANGED <<kind, exc, ret, failed>>

\* where an exception raised at the current position of a pytest test goes:
\* a fixture that raised before its yield has no teardown, the fixtures set
\* up before it are torn down (conftest.py:111-159)
PytestHandler(at) ==
    CASE at \in {"create", "wait"} -> "p_next"
      [] at = "connect" -> "p_destroy"
      [] at = "test" -> "sshclose"
      [] OTHER -> "p_next"

\* an exception e ("error": an Exception; "interrupt": KeyboardInterrupt)
\* raised at the current position
Raise(w, e) ==
    LET k == kind[w]
        at == pc[w]
    IN  IF k \in CallerKinds
        THEN \* the direct caller sees the exception of its call
             /\ pc' = [pc EXCEPT ![w] = "idle"]
             /\ exc' = [exc EXCEPT ![w] = e]
             /\ UNCHANGED <<kind, ret, exitCode, failed>>
        ELSE IF k = "pytest"
        THEN /\ pc' = [pc EXCEPT ![w] = PytestHandler(at)]
             /\ failed' = [failed EXCEPT ![w] = TRUE]
             /\ UNCHANGED <<kind, exc, ret, exitCode>>
        ELSE IF at \in TryPcs(k)
        THEN IF e = "error" /\ k = "comp" /\ at = "connect"
             THEN \* run_comprehensive_test.py:179-181 except Exception
                  Goto(w, "connect_retry")
             ELSE IF e = "error" /\ CatchesError(k)
             THEN \* except Exception: return 1, then the finally block
                  /\ pc' = [pc EXCEPT ![w] = "fin_destroy"]
                  /\ ret' = [ret EXCEPT ![w] = "1"]
                  /\ UNCHANGED <<kind, exc, exitCode, failed>>
             ELSE /\ pc' = [pc EXCEPT ![w] = "fin_destroy"]
                  /\ exc' = [exc EXCEPT ![w] = e]
                  /\ UNCHANGED <<kind, ret, exitCode, failed>>
        ELSE \* no enclosing try: the traceback ends the process
             Exit(w, "1")

\* the end of a finally block: re-raise, or return the pending value, or
\* fall through to the code after the block
LeaveFinally(w) ==
    IF exc[w] # "none" THEN Exit(w, "1")
    ELSE IF ret[w] # "none" THEN Exit(w, ret[w])
    ELSE Goto(w, "report")

(***************************************************************************)
(* Provider calls.                                                         *)
(***************************************************************************)
\* the answers droplet.destroy() can get: the droplet is destroyed, the API
\* call fails, or the droplet is already gone (the provider then answers
\* with an error or ignores the request)
DestroyOutcomes(w, d) ==
    IF Live(d)
    THEN {"ok"} \cup (IF CanFault(w) THEN {"fault"} ELSE {})
    ELSE {"gone_ok", "gone_raise"}

Raised(o) == o \in {"fault", "gone_raise"}

DropletDestroy(w, d, o) ==
    /\ cloud' = IF o = "ok" THEN [cloud EXCEPT ![d] = "gone"] ELSE cloud
    /\ faults' = IF o = "fault" THEN [faults EXCEPT ![w] = @ + 1] ELSE faults
    /\ harmed' = IF o = "ok" /\ Owner(d) \in Workers \ {w} /\ Running(Owner(d))
                 THEN [harmed EXCEPT !.droplets = @ \cup {d}]
                 ELSE harmed

\* controller.destroy(droplet) with a handle
ControllerDestroy(w, d, o) ==
    /\ DropletDestroy(w, d, o)
    /\ tracked' = IF Raised(o) THEN tracked
                  ELSE [tracked EXCEPT ![w] = Remove(@, d)]

KeyDestroyOutcomes(w, key) ==
    IF \E r \in keys : r.id = key.id
    THEN {"ok"} \cup (IF CanFault(w) THEN {"fault"} ELSE {})
    ELSE {"gone_raise"}

\* do_key.destroy() inside try/except: every error is swallowed
KeyDestroy(w, key, o) ==
    /\ keys' = IF o = "ok" THEN {r \in keys : r.id # key.id} ELSE keys
    /\ faults' = IF o = "fault" THEN [faults EXCEPT ![w] = @ + 1] ELSE faults
    /\ harmed' = IF o = "ok" /\ \E v \in Workers \ {w} :
                        Running(v) /\ (doKey[v].id = key.id \/ key.id = v)
                 THEN [harmed EXCEPT !.keys = @ \cup {key.id}]
                 ELSE harmed

KeyMatches(content, name) ==
    {r \in keys : r.content = content \/ r.name = name}

GetOrCreateSSHKey(w, content, name) ==
    IF KeyMatches(content, name) # {}
    THEN /\ \E r \in KeyMatches(content, name) :
                doKey' = [doKey EXCEPT ![w] = r]
         /\ keys' = keys
    ELSE LET r == [id |-> w, name |-> name, content |-> content]
         IN  /\ keys' = keys \cup {r}
             /\ doKey' = [doKey EXCEPT ![w] = r]

\* a limit check that still admits a run at the limit
CheckDropletLimitInclusive(w) == created[w] <= maxDroplets[w]

CheckDropletLimit(w) == created[w] < maxDroplets[w]

\* a timeout check that is still true at the limit
CheckTimeoutInclusive(w) == minutes[w] <= MaxSessionMinutes

CheckTimeout(w) == minutes[w] < MaxSessionMinutes

(***************************************************************************)
(* Entry: token check and construction of the components.                  *)
(***************************************************************************)
\* DropletController(token): `self.token = token or os.getenv(...)`, then
\* `if not self.token: raise ValueError` before the Manager is built
ControllerInit(token) == IF token THEN "manager" ELSE "ValueError"

\* an entry point that does not look at the credential
MissingTokenUnchecked == FALSE

\* `token = os.getenv("DIGITALOCEAN_TOKEN"); if not token:` of the entry
\* points
MissingToken == ~env.token

ScriptStart(w) ==
    /\ pc[w] = "start"
    /\ kind[w] \in ScriptKinds
    /\ IF MissingToken
       THEN Exit(w, "1") /\ UNCHANGED maxDroplets
       ELSE /\ maxDroplets' = [maxDroplets EXCEPT ![w] = GuardMaxDroplets(kind[w])]
            /\ Goto(w, IF HasKey(kind[w]) THEN "key" ELSE "create")
    /\ UNCHANGED <<envVars, provVars, ctlVars, orchVars, created, minutes, sshVars,
                   histVars>>

\* the do_token and controller fixtures: the controller and its SessionGuard
PytestStart(w) ==
    /\ pc[w] = "start"
    /\ kind[w] = "pytest"
    /\ IF MissingToken
       THEN Exit(w, "0") /\ UNCHANGED guardInstalled
       ELSE /\ guardInstalled' = [guardInstalled EXCEPT ![w] = TRUE]
            /\ Goto(w, "key")
    /\ UNCHANGED <<envVars, provVars, tracked, submitted, waited, pending, sweepMode,
                   orchVars, guardVars, sshVars, histVars>>

\* the key upload of the scripts and of the ssh_key fixture; the pytest
\* session then builds its CostGuard (the cost_guard fixture)
GetKey(w) ==
    /\ pc[w] = "key"
    /\ GetOrCreateSSHKey(w, w, KeyName(w))
    /\ IF kind[w] = "pytest"
       THEN /\ maxDroplets' = [maxDroplets EXCEPT ![w] = GuardMaxDroplets("pytest")]
            /\ Goto(w, "p_next")
       ELSE /\ UNCHANGED maxDroplets
            /\ Goto(w, "create")
    /\ UNCHANGED <<envVars, cloud, ctlVars, droplet, step, results, testsLeft, reports,
                   outer, created, minutes, sshVars, histVars>>

(***************************************************************************)
(* DropletController.create and _wait_for_active.                          *)
(***************************************************************************)
\* a create that does not append to the tracked list before it waits
CreateUntracked(w) ==
    /\ pc[w] = "create"
    /\ submitted[w] < MaxTests
    /\ cloud' = [cloud EXCEPT ![<<w, submitted[w] + 1>>] = "new"]
    /\ submitted' = [submitted EXCEPT ![w] = @ + 1]
    /\ waited' = [waited EXCEPT ![w] = 0]
    /\ hist' = [hist EXCEPT ![w].unguarded = @ \/ hist[w].verdict # "pass",
                            ![w].verdict = "none"]
    /\ Goto(w, "wait")
    /\ UNCHANGED <<envVars, keys, tracked, pending, sweepMode, guardInstalled,
                   orchVars, guardVars, sshVars, faults, sigAt, harmed>>

Create(w) ==
    /\ pc[w] = "create"
    /\ submitted[w] < MaxTests
    /\ LET d == <<w, submitted[w] + 1>>
       IN  /\ cloud' = [cloud EXCEPT ![d] = "new"]
           /\ tracked' = [tracked EXCEPT ![w] = Append(@, d)]
    /\ submitted' = [submitted EXCEPT ![w] = @ + 1]
    /\ waited' = [waited EXCEPT ![w] = 0]
    /\ hist' = [hist EXCEPT ![w].unguarded = @ \/ hist[w].verdict # "pass",
                            ![w].verdict = "none"]
    /\ Goto(w, "wait")
    /\ UNCHANGED <<envVars, keys, pending, sweepMode, guardInstalled, orchVars,
                   guardVars, sshVars, faults, sigAt, harmed>>

\* a wait loop `while True:` that polls until the droplet is active
WaitForActiveNoTimeout(w) ==
    /\ pc[w] = "wait"
    /\ LET d == <<w, submitted[w]>>
       IN  CASE cloud[d] = "active" ->
                  /\ droplet' = [droplet EXCEPT ![w] = d]
                  /\ Goto(w, "record")
                  /\ UNCHANGED <<waited, hist>>
             [] cloud[d] = "new" ->
                  /\ waited' = [waited EXCEPT ![w] =
                                    IF @ < MaxWait THEN @ + 1 ELSE @]
                  /\ UNCHANGED <<procVars, droplet, hist>>
             [] OTHER ->
                  /\ Raise(w, "error")
                  /\ hist' = [hist EXCEPT ![w].fatal = Fatal(w, "create")]
                  /\ UNCHANGED <<waited, droplet>>
    /\ UNCHANGED <<envVars, provVars, tracked, submitted, pending, sweepMode,
                   guardInstalled, doKey, step, results, testsLeft, reports, outer,
                   guardVars, sshVars, faults, sigAt, harmed>>

\* a wait loop that returns when the timeout has elapsed instead of raising
WaitForActiveNoRaise(w) ==
    /\ pc[w] = "wait"
    /\ LET d == <<w, submitted[w]>>
       IN  IF waited[w] < MaxWait /\ cloud[d] = "new"
           THEN /\ waited' = [waited EXCEPT ![w] = @ + 1]
                /\ UNCHANGED <<procVars, droplet>>
           ELSE /\ droplet' = [droplet EXCEPT ![w] = d]
                /\ Goto(w, "record")
                /\ UNCHANGED waited
    /\ UNCHANGED <<envVars, provVars, tracked, submitted, pending, sweepMode,
                   guardInstalled, doKey, step, results, testsLeft, reports, outer,
                   guardVars, sshVars, histVars>>

WaitForActive(w) ==
    /\ pc[w] = "wait"
    /\ LET d == <<w, submitted[w]>>
       IN  IF waited[w] < MaxWait
           THEN CASE cloud[d] = "active" ->
                       /\ droplet' = [droplet EXCEPT ![w] = d]
                       /\ Goto(w, "record")
                       /\ UNCHANGED <<waited, hist>>
                  [] cloud[d] = "new" ->
                       /\ waited' = [waited EXCEPT ![w] = @ + 1]
                       /\ UNCHANGED <<procVars, droplet, hist>>
                  [] OTHER ->
                       \* droplet.load() of a droplet that no longer exists
                       /\ Raise(w, "error")
                       /\ hist' = [hist EXCEPT ![w].fatal = Fatal(w, "create")]
                       /\ UNCHANGED <<waited, droplet>>
           ELSE \* raise TimeoutError(f"Droplet {droplet.name} did not ...")
                /\ Raise(w, "error")
                /\ hist' = [hist EXCEPT ![w].fatal = Fatal(w, "timeout"),
                                        ![w].named = Named(w, d)]
                /\ UNCHANGED <<waited, droplet>>
    /\ UNCHANGED <<envVars, provVars, tracked, submitted, pending, sweepMode,
                   guardInstalled, doKey, step, results, testsLeft, reports, outer,
                   guardVars, sshVars, faults, sigAt, harmed>>

\* the provider finishes booting a droplet
ProviderActivate(d) ==
    /\ cloud[d] = "new"
    /\ cloud' = [cloud EXCEPT ![d] = "active"]
    /\ UNCHANGED <<envVars, procVars, keys, ctlVars, orchVars, guardVars, sshVars,
                   histVars>>

\* the guard's clock advances while a process blocks; only the pytest
\* session ever reads it through check_timeout()
Tick(w) ==
    /\ kind[w] = "pytest"
    /\ pc[w] \in {"wait", "test"}
    /\ minutes[w] < MaxSessionMinutes
    /\ minutes' = [minutes EXCEPT ![w] = @ + 1]
    /\ UNCHANGED <<envVars, procVars, provVars, ctlVars, orchVars, created, maxDroplets,
                   sshVars, histVars>>

\* cost_guard.record_droplet() after create returned, then the settle sleep
\* and a new SSHDriver
Record(w) ==
    /\ pc[w] = "record"
    /\ created' = [created EXCEPT ![w] = @ + 1]
    /\ client' = [client EXCEPT ![w] = "none"]
    /\ attempt' = [attempt EXCEPT ![w] = 0]
    /\ Goto(w, IF HasKey(kind[w]) THEN "connect" ELSE "ping")
    /\ UNCHANGED <<envVars, provVars, ctlVars, orchVars, maxDroplets, minutes,
                   unreleased, histVars>>

(***************************************************************************)
(* SSHDriver.connect, close, and the remote commands.                      *)
(***************************************************************************)
AfterConnect(k) ==
    CASE k = "single" -> "cloudinit" [] k = "comp" -> "checks" [] OTHER -> "test"

\* one iteration of connect's loop; the first one follows the creation of a
\* new SSHClient
ConnectAttempt(w) ==
    /\ pc[w] = "connect"
    /\ unreleased' = [unreleased EXCEPT ![w] = IF attempt[w] = 0 THEN @ + 1 ELSE @]
    /\ \E o \in {"ok", "ssh_error", "other_error"} :
          CASE o = "ok" ->
                 /\ client' = [client EXCEPT ![w] = "connected"]
                 /\ attempt' = [attempt EXCEPT ![w] = 0]
                 /\ Goto(w, AfterConnect(kind[w]))
                 /\ UNCHANGED hist
            [] o = "ssh_error" /\ attempt[w] < Retries(kind[w]) - 1 ->
                 /\ client' = [client EXCEPT ![w] = "idle"]
                 /\ attempt' = [attempt EXCEPT ![w] = @ + 1]
                 /\ UNCHANGED <<procVars, hist>>
            [] OTHER ->
                 \* ConnectionError after the last attempt, or an exception
                 \* the loop does not catch
                 /\ client' = [client EXCEPT ![w] = "idle"]
                 /\ attempt' = [attempt EXCEPT ![w] = 0]
                 /\ Raise(w, "error")
                 /\ hist' = [hist EXCEPT ![w].fatal =
                                IF kind[w] = "comp" THEN @ ELSE Fatal(w, "connect")]
    /\ UNCHANGED <<envVars, provVars, ctlVars, orchVars, guardVars, faults, sigAt,
                   harmed>>

\* run_comprehensive_test: the outer loop around ssh.connect(retries=1)
CompConnectRetry(w) ==
    /\ pc[w] = "connect_retry"
    /\ IF outer[w] + 1 < MaxRetries
       THEN /\ outer' = [outer EXCEPT ![w] = @ + 1]
            /\ Goto(w, "connect")
            /\ UNCHANGED <<results, hist>>
       ELSE \* not connected: record the failure and return 1
            /\ results' = [results EXCEPT ![w] = Append(@, FALSE)]
            /\ hist' = [hist EXCEPT ![w].fatal = "connect"]
            /\ pc' = [pc EXCEPT ![w] = "fin_destroy"]
            /\ ret' = [ret EXCEPT ![w] = "1"]
            /\ UNCHANGED <<kind, exc, exitCode, failed, outer>>
    /\ UNCHANGED <<envVars, provVars, ctlVars, droplet, doKey, step, testsLeft, reports,
                   guardVars, sshVars, faults, sigAt, harmed>>

\* run_single_test: the cloud-init wait; `|| true` lets the first answer
\* end the loop
CloudInit(w) ==
    /\ pc[w] = "cloudinit"
    /\ \E o \in {"raise", "done"} :
          IF o = "raise"
          THEN Raise(w, "error") /\ hist' = [hist EXCEPT ![w].fatal = "exec"]
          ELSE Goto(w, "checks") /\ UNCHANGED hist
    /\ UNCHANGED <<envVars, provVars, ctlVars, orchVars, guardVars, sshVars, faults,
                   sigAt, harmed>>

\* what one verification step records for exit code c and stdout marker t
Passed(st, c, t) == c = 0 /\ (st.text => t)

\* a check sequence that stops at the first failed command
AfterCheckStopOnFailure(i, n, c) ==
    IF i = n \/ c # 0 THEN "sshclose" ELSE "checks"

\* where the check sequence goes after step i of n
AfterCheck(i, n, c) == IF i = n THEN "sshclose" ELSE "checks"

RunCheck(w) ==
    /\ pc[w] = "checks"
    /\ LET sts == Steps(kind[w])
           st == sts[step[w]]
       IN  \E raise \in BOOLEAN, c \in {0, 1}, t \in BOOLEAN :
             /\ raise => (c = 0 /\ t)
             /\ ~st.text => t
             /\ IF raise
                THEN /\ Raise(w, "error")
                     /\ hist' = [hist EXCEPT ![w].fatal = "exec"]
                     /\ UNCHANGED <<step, results>>
                ELSE /\ results' = [results EXCEPT ![w] =
                            IF st.rec THEN Append(@, Passed(st, c, t)) ELSE @]
                     /\ step' = [step EXCEPT ![w] = @ + 1]
                     /\ Goto(w, AfterCheck(step[w], Len(sts), c))
                     /\ hist' = [hist EXCEPT
                            ![w].nonzero = @ \/ (st.rec /\ c # 0),
                            ![w].mispass = @ \/ (st.rec /\ c # 0 /\ Passed(st, c, t))]
    /\ UNCHANGED <<envVars, provVars, ctlVars, droplet, doKey, testsLeft, reports, outer,
                   guardVars, sshVars, faults, sigAt, harmed>>

\* SSHDriver.close() at the end of the try body and in the ssh fixture
SSHClose(w) ==
    /\ pc[w] = "sshclose"
    /\ IF client[w] # "none"
       THEN /\ unreleased' = [unreleased EXCEPT ![w] = @ - 1]
            /\ client' = [client EXCEPT ![w] = "none"]
       ELSE UNCHANGED <<unreleased, client>>
    /\ Goto(w, IF kind[w] = "pytest" THEN "p_destroy" ELSE "fin_destroy")
    /\ UNCHANGED <<envVars, provVars, ctlVars, orchVars, guardVars, attempt, histVars>>

\* quick_test / verify_environment: the ping and the results built from it
Ping(w) ==
    /\ pc[w] = "ping"
    /\ \E o \in {"raise", "0", "1"} :
          IF o = "raise"
          THEN /\ Raise(w, "error")
               /\ hist' = [hist EXCEPT ![w].fatal = "ping"]
               /\ UNCHANGED results
          ELSE /\ results' = [results EXCEPT ![w] =
                      IF kind[w] = "verify" THEN <<TRUE, o = "0", TRUE>> ELSE @]
               /\ Goto(w, "fin_destroy")
               /\ UNCHANGED hist
    /\ UNCHANGED <<envVars, provVars, ctlVars, droplet, doKey, step, testsLeft, reports,
                   outer, guardVars, sshVars, faults, sigAt, harmed>>

(***************************************************************************)
(* The scripts' cleanup block (finally) and what follows it.               *)
(***************************************************************************)
\* a failing controller.destroy(droplet) leaves the finally block only
\* where the call is not wrapped in try/except
DestroyErrorEscapes(k, o) == Raised(o) /\ ~DestroyGuarded(k)

FinDestroy(w) ==
    /\ pc[w] = "fin_destroy"
    /\ LET k == kind[w]
           next == IF HasKey(k) THEN "fin_revoke" ELSE "fin_list"
       IN  IF droplet[w] = Unbound
           THEN \* create raised: `droplet` is not bound, the NameError is
                \* swallowed by the except around the call
                /\ Goto(w, next)
                /\ hist' = [hist EXCEPT ![w].cleanup = "entered"]
                /\ UNCHANGED <<cloud, tracked, faults, harmed>>
           ELSE \E o \in DestroyOutcomes(w, droplet[w]) :
                  /\ ControllerDestroy(w, droplet[w], o)
                  /\ hist' = [hist EXCEPT ![w].cleanup = "entered",
                                          ![w].destroyTried = TRUE,
                                          ![w].destroyEscaped =
                                              DestroyErrorEscapes(k, o)]
                  /\ IF DestroyErrorEscapes(k, o)
                     THEN Exit(w, "1")
                     ELSE Goto(w, next)
    /\ UNCHANGED <<envVars, keys, submitted, waited, pending, sweepMode, guardInstalled,
                   orchVars, guardVars, sshVars, sigAt>>

FinRevoke(w) ==
    /\ pc[w] = "fin_revoke"
    /\ \E o \in KeyDestroyOutcomes(w, doKey[w]) : KeyDestroy(w, doKey[w], o)
    /\ IF Requeries(kind[w])
       THEN /\ Goto(w, "fin_list")
            /\ hist' = [hist EXCEPT ![w].revokeTried = TRUE]
       ELSE /\ LeaveFinally(w)
            /\ hist' = [hist EXCEPT ![w].revokeTried = TRUE, ![w].cleanup = "done"]
    /\ UNCHANGED <<envVars, cloud, ctlVars, orchVars, guardVars, sshVars, sigAt>>

\* remaining = controller.list_by_tag(...): the call is not wrapped
FinList(w) ==
    /\ pc[w] = "fin_list"
    /\ \E o \in {"ok"} \cup (IF CanFault(w) THEN {"fault"} ELSE {}) :
          IF o = "fault"
          THEN /\ faults' = [faults EXCEPT ![w] = @ + 1]
               /\ Exit(w, "1")
               /\ UNCHANGED hist
          ELSE /\ hist' = [hist EXCEPT ![w].cleanup = "done"]
               /\ LeaveFinally(w)
               /\ UNCHANGED faults
    /\ UNCHANGED <<envVars, provVars, ctlVars, orchVars, guardVars, sshVars, sigAt,
                   harmed>>

\* the value the entry point hands to the process exit
ReturnCode(k, rs) ==
    CASE k = "single" -> "0"   \* run_connectivity_test() returns None
      [] k = "quick" -> "0"
      [] OTHER -> IF AllPassed(rs) THEN "0" ELSE "1"

\* summary, report file and return value after the finally block
Report(w) ==
    /\ pc[w] = "report"
    /\ reports' = [reports EXCEPT ![w] = IF WritesReport(kind[w]) THEN @ + 1 ELSE @]
    /\ Exit(w, ReturnCode(kind[w], results[w]))
    /\ UNCHANGED <<envVars, provVars, ctlVars, droplet, doKey, step, results, testsLeft,
                   outer, guardVars, sshVars, histVars>>

(***************************************************************************)
(* The pytest session: fixtures of conftest.py.                            *)
(***************************************************************************)
\* the session goes on to another test or ends
PytestNext(w) ==
    /\ pc[w] = "p_next"
    /\ droplet' = [droplet EXCEPT ![w] = Unbound]
    /\ client' = [client EXCEPT ![w] = "none"]
    /\ \E more \in BOOLEAN :
          IF more /\ testsLeft[w] > 0
          THEN /\ testsLeft' = [testsLeft EXCEPT ![w] = @ - 1]
               /\ Goto(w, "p_guard")
          ELSE /\ UNCHANGED testsLeft
               /\ Goto(w, "p_revoke")
    /\ UNCHANGED <<envVars, provVars, ctlVars, doKey, step, results, reports, outer,
                   guardVars, unreleased, attempt, histVars>>

\* the droplet fixture consults the guard before create
GuardAllows(w) == CheckDropletLimit(w) /\ CheckTimeout(w)

PytestGuard(w) ==
    /\ pc[w] = "p_guard"
    /\ IF GuardAllows(w)
       THEN /\ hist' = [hist EXCEPT ![w].verdict = "pass"]
            /\ Goto(w, "create")
       ELSE /\ hist' = [hist EXCEPT ![w].verdict = "skip"]
            /\ Goto(w, "p_next")
    /\ UNCHANGED <<envVars, provVars, ctlVars, orchVars, guardVars, sshVars, faults,
                   sigAt, harmed>>

\* a test body: remote commands and assertions
PytestTest(w) ==
    /\ pc[w] = "test"
    /\ \E o \in {"pass", "fail"} :
          IF o = "fail" THEN Raise(w, "error") ELSE Goto(w, "sshclose")
    /\ UNCHANGED <<envVars, provVars, ctlVars, orchVars, guardVars, sshVars, histVars>>

\* the droplet fixture's teardown: controller.destroy(droplet), not wrapped
PytestDestroy(w) ==
    /\ pc[w] = "p_destroy"
    /\ \E o \in DestroyOutcomes(w, droplet[w]) :
          /\ ControllerDestroy(w, droplet[w], o)
          /\ IF Raised(o) THEN Raise(w, "error") ELSE Goto(w, "p_next")
    /\ UNCHANGED <<envVars, keys, submitted, waited, pending, sweepMode, guardInstalled,
                   orchVars, guardVars, sshVars, sigAt, hist>>

\* session end: the ssh_key fixture's teardown, then the controller
\* fixture's guard.cleanup()
PytestRevoke(w) ==
    /\ pc[w] = "p_revoke"
    /\ \E o \in KeyDestroyOutcomes(w, doKey[w]) : KeyDestroy(w, doKey[w], o)
    /\ sweepMode' = [sweepMode EXCEPT ![w] = "teardown"]
    /\ hist' = [hist EXCEPT ![w].revokeTried = TRUE]
    /\ Goto(w, "sweep_list")
    /\ UNCHANGED <<envVars, cloud, tracked, submitted, waited, pending, guardInstalled,
                   orchVars, guardVars, sshVars, sigAt>>

(***************************************************************************)
(* SessionGuard: cleanup() runs destroy_all under try/except; the signal   *)
(* handler runs cleanup() and then exit(1).                                *)
(***************************************************************************)
\* after cleanup() returned (destroy_all done, or its exception swallowed)
AfterGuardCleanup(w) ==
    Exit(w, IF sweepMode[w] = "handler" \/ failed[w] THEN "1" ELSE "0")

\* destroy_all: manager.get_all_droplets(tag_name=tag)
Listed(tag) == {d \in DropletIds : Live(d) /\ TagOf(d) = tag}

SweepList(w) ==
    /\ pc[w] = "sweep_list"
    /\ \E o \in {"ok"} \cup (IF CanFault(w) THEN {"fault"} ELSE {}) :
          IF o = "fault"
          THEN /\ faults' = [faults EXCEPT ![w] = @ + 1]
               /\ hist' = [hist EXCEPT ![w].sweepFailed = TRUE,
                              ![w].handlerSweep = @ \/ sweepMode[w] = "handler"]
               /\ AfterGuardCleanup(w)
               /\ UNCHANGED pending
          ELSE /\ hist' = [hist EXCEPT
                              ![w].handlerSweep = @ \/ sweepMode[w] = "handler"]
               /\ UNCHANGED faults
               /\ IF Listed(TestTag) = {}
                  THEN AfterGuardCleanup(w) /\ UNCHANGED pending
                  ELSE /\ pending' = [pending EXCEPT ![w] = Listed(TestTag)]
                       /\ Goto(w, "sweep_loop")
    /\ UNCHANGED <<envVars, provVars, tracked, submitted, waited, sweepMode,
                   guardInstalled, orchVars, guardVars, sshVars, sigAt,
                   harmed>>

\* destroy_all: one iteration of `for droplet in droplets: droplet.destroy()`
SweepStep(w) ==
    /\ pc[w] = "sweep_loop"
    /\ \E d \in pending[w] : \E o \in DestroyOutcomes(w, d) :
          /\ DropletDestroy(w, d, o)
          /\ IF Raised(o)
             THEN /\ pending' = [pending EXCEPT ![w] = {}]
                  /\ hist' = [hist EXCEPT ![w].sweepFailed = TRUE,
                                          ![w].sweepGone = (o = "gone_raise")]
                  /\ AfterGuardCleanup(w)
             ELSE /\ pending' = [pending EXCEPT ![w] = @ \ {d}]
                  /\ UNCHANGED hist
                  /\ IF pending[w] = {d}
                     THEN AfterGuardCleanup(w)
                     ELSE UNCHANGED procVars
    /\ UNCHANGED <<envVars, keys, tracked, submitted, waited, sweepMode, guardInstalled,
                   orchVars, guardVars, sshVars, sigAt>>

\* a guard that registers its handler for SIGINT only
SignalTakenIntOnly(w, sig) ==
    IF guardInstalled[w] /\ sig = "INT" THEN "guarded"
    ELSE IF sig = "TERM" THEN "killed" ELSE "interrupt"

\* what a SIGINT or SIGTERM does to a process: the SessionGuard's handler
\* where one is installed, else Python's defaults (SIGTERM ends the process
\* at once, SIGINT raises KeyboardInterrupt at the current position)
SignalTaken(w, sig) ==
    IF guardInstalled[w] THEN "guarded"
    ELSE IF sig = "TERM" THEN "killed" ELSE "interrupt"

Signal(w) ==
    /\ Running(w)
    /\ sigAt[w] = "none"
    /\ \E sig \in {"INT", "TERM"} :
          LET how == SignalTaken(w, sig)
          IN  /\ sigAt' = [sigAt EXCEPT ![w] = how]
              /\ CASE how = "guarded" ->
                        /\ sweepMode' = [sweepMode EXCEPT ![w] = "handler"]
                        /\ pending' = [pending EXCEPT ![w] = {}]
                        /\ Goto(w, "sweep_list")
                   [] how = "killed" ->
                        /\ Exit(w, "signal")
                        /\ UNCHANGED <<sweepMode, pending>>
                   [] OTHER ->
                        /\ IF kind[w] = "pytest" THEN Exit(w, "1")
                           ELSE Raise(w, "interrupt")
                        /\ UNCHANGED <<sweepMode, pending>>
    /\ UNCHANGED <<envVars, provVars, tracked, submitted, waited, guardInstalled,
                   orchVars, guardVars, sshVars, faults, hist, harmed>>

Step(w) ==
    \/ ScriptStart(w)
    \/ PytestStart(w)
    \/ GetKey(w)
    \/ Create(w)
    \/ WaitForActive(w)
    \/ Tick(w)
    \/ Record(w)
    \/ ConnectAttempt(w)
    \/ CompConnectRetry(w)
    \/ CloudInit(w)
    \/ RunCheck(w)
    \/ SSHClose(w)
    \/ Ping(w)
    \/ FinDestroy(w)
    \/ FinRevoke(w)
    \/ FinList(w)
    \/ Report(w)
    \/ PytestNext(w)
    \/ PytestGuard(w)
    \/ PytestTest(w)
    \/ PytestDestroy(w)
    \/ PytestRevoke(w)
    \/ SweepList(w)
    \/ SweepStep(w)
    \/ Signal(w)

Next ==
    \/ \E w \in Workers : Step(w)
    \/ \E d \in DropletIds : ProviderActivate(d)

Spec == Init /\ [][Next]_vars

(***************************************************************************)
(* Direct use of one component: a caller that constructs a CostGuard or a  *)
(* DropletController and calls its methods in any order.  hist[w] holds    *)
(* the last call, its return value and the state it started from.          *)
(***************************************************************************)
GuardState(w) ==
    [created |-> created[w], max |-> maxDroplets[w], minutes |-> minutes[w]]

NoSummary == [droplets_created |-> 0, max_droplets |-> 0, elapsed_minutes |-> 0,
              max_minutes |-> 0, cost |-> 0]

CallHist ==
    [call |-> "none", retBool |-> FALSE, ctorMax |-> 0, timedOut |-> FALSE,
     pre |-> [created |-> 0, max |-> 0, minutes |-> 0], summary |-> NoSummary,
     matched |-> FALSE,     \* destroy(str): the scan found an instance
     requests |-> 0,        \* destroy requests the last call sent
     kept |-> TRUE,         \* the last call left the tracked list as it was
     repeated |-> FALSE,    \* the last call sent a request for an instance
                            \* that was destroyed before
     early |-> FALSE,       \* the last call sent a request for an instance
                            \* that had not become active
     before |-> <<>>,       \* cleanup(): the tracked list at its start
     swept |-> {},          \* instances a cleanup() has tried to destroy
     todo |-> <<>>,         \* cleanup(): the copied list not yet iterated
     tries |-> [d \in DropletIds |-> 0],  \* cleanup(): requests per instance
     keyRets |-> <<>>,      \* records get_or_create_ssh_key returned
     uploads |-> 0,         \* key.create() requests sent
     retries |-> 0,         \* connect(): the `retries` argument
     attempts |-> 0,        \* connect(): _client.connect() calls made
     sleeps |-> 0,          \* connect(): time.sleep(5) calls made
     reported |-> 0,        \* connect(): the count in the ConnectionError
                            \* message (0: no ConnectionError)
     preClient |-> "none",  \* _client when the last call started
     released |-> 0,        \* close(): _client.close() calls made
     closed |-> FALSE,      \* an earlier close() has released a client
     opened |-> 0,          \* transfer: channels open_sftp() returned
     catalogs |-> 0,        \* OSMatrix objects constructed
     override |-> {}]       \* the snapshot map the last OSMatrix loaded
    @@ NoHist

InitCaller ==
    /\ \E k \in CallerKinds :
          /\ kind = [w \in Workers |-> IF w = "w1" THEN k ELSE "none"]
          /\ pc = [w \in Workers |->
                      IF w # "w1" THEN "off"
                      ELSE IF k \in {"ssh", "matrix"} THEN "idle" ELSE "new"]
          /\ \E m \in EnvUnset..MaxTests, t \in BOOLEAN :
                /\ env = [token |-> t, openai |-> FALSE, maxDroplets |-> m]
                /\ k # "guard" => m = EnvUnset
                /\ k \notin {"controller", "keys"} => t
          /\ keys \in {{}, {PreKey}}
          /\ k # "keys" => keys = {}
    /\ exc = [w \in Workers |-> "none"]
    /\ ret = [w \in Workers |-> "none"]
    /\ exitCode = [w \in Workers |-> "running"]
    /\ failed = [w \in Workers |-> FALSE]
    /\ cloud = [d \in DropletIds |-> IF d = External THEN "active" ELSE "absent"]
    /\ tracked = [w \in Workers |-> <<>>]
    /\ submitted = [w \in Workers |-> 0]
    /\ waited = [w \in Workers |-> 0]
    /\ pending = [w \in Workers |-> {}]
    /\ sweepMode = [w \in Workers |-> "none"]
    /\ guardInstalled = [w \in Workers |-> FALSE]
    /\ droplet = [w \in Workers |-> Unbound]
    /\ doKey = [w \in Workers |-> NoKey]
    /\ created = [w \in Workers |-> 0]
    /\ maxDroplets = [w \in Workers |-> 0]
    /\ minutes = [w \in Workers |-> 0]
    /\ client = [w \in Workers |-> "none"]
    /\ unreleased = [w \in Workers |-> 0]
    /\ attempt = [w \in Workers |-> 0]
    /\ outer = [w \in Workers |-> 0]
    /\ step = [w \in Workers |-> 1]
    /\ results = [w \in Workers |-> <<>>]
    /\ testsLeft = [w \in Workers |-> 0]
    /\ reports = [w \in Workers |-> 0]
    /\ faults = [w \in Workers |-> 0]
    /\ sigAt = [w \in Workers |-> "masked"]
    /\ hist = [w \in Workers |-> CallHist]
    /\ harmed = [droplets |-> {}, keys |-> {}]
    /\ images = [n \in TargetNames |-> DefaultImage(n)]
    /\ sftp = [w \in Workers |-> 0]

\* the variables no CostGuard method touches
guardFrame == <<envVars, procVars, provVars, ctlVars, orchVars, sshVars, faults, sigAt,
                harmed>>

\* history: a call of `name` starts in the current guard state
Called(w, name) == [hist[w] EXCEPT !.call = name, !.pre = GuardState(w)]

\* CostGuard(max_droplets=m): _start_time = now, _droplets_created = 0
NewCostGuard(w) ==
    /\ kind[w] = "guard"
    /\ pc[w] = "new"
    /\ \E m \in 0..MaxTests :
          /\ maxDroplets' = [maxDroplets EXCEPT ![w] = PostInit(m)]
          /\ hist' = [hist EXCEPT ![w].ctorMax = m]
    /\ created' = [created EXCEPT ![w] = 0]
    /\ minutes' = [minutes EXCEPT ![w] = 0]
    /\ Goto(w, "idle")
    /\ UNCHANGED <<envVars, provVars, ctlVars, orchVars, sshVars, faults, sigAt, harmed>>

\* a record_droplet() that stops counting at the limit
RecordDropletCapped(w) ==
    created' = [created EXCEPT ![w] = IF @ < maxDroplets[w] THEN @ + 1 ELSE @]

\* record_droplet(): self._droplets_created += 1
RecordDroplet(w) == created' = [created EXCEPT ![w] = @ + 1]

CallCheckDropletLimit(w) ==
    /\ kind[w] = "guard" /\ pc[w] = "idle"
    /\ hist' = [hist EXCEPT ![w] =
                   [Called(w, "check_droplet_limit") EXCEPT
                       !.retBool = CheckDropletLimit(w)]]
    /\ UNCHANGED <<guardFrame, guardVars>>

CallCheckTimeout(w) ==
    /\ kind[w] = "guard" /\ pc[w] = "idle"
    /\ hist' = [hist EXCEPT ![w] =
                   [Called(w, "check_timeout") EXCEPT
                       !.retBool = CheckTimeout(w),
                       !.timedOut = @ \/ ~CheckTimeout(w)]]
    /\ UNCHANGED <<guardFrame, guardVars>>

CallRecordDroplet(w) ==
    /\ kind[w] = "guard" /\ pc[w] = "idle"
    /\ created[w] < MaxRecords
    /\ RecordDroplet(w)
    /\ hist' = [hist EXCEPT ![w] = Called(w, "record_droplet")]
    /\ UNCHANGED <<guardFrame, maxDroplets, minutes>>

\* an estimate that charges only the instances that still exist
EstimateCostLiveOnly(w) == Cardinality({d \in Mine(w) : Live(d)}) * minutes[w]

\* estimate_cost(): created * cost per hour * hours since the start, here
\* in units of one droplet-minute
EstimateCost(w) == created[w] * minutes[w]

\* get_summary()
GetSummary(w) ==
    [droplets_created |-> created[w], max_droplets |-> maxDroplets[w],
     elapsed_minutes |-> minutes[w], max_minutes |-> MaxSessionMinutes,
     cost |-> EstimateCost(w)]

CallGetSummary(w) ==
    /\ kind[w] = "guard" /\ pc[w] = "idle"
    /\ hist' = [hist EXCEPT ![w] =
                   [Called(w, "get_summary") EXCEPT !.summary = GetSummary(w)]]
    /\ UNCHANGED <<guardFrame, guardVars>>

\* time passes between two calls, up to one minute past the limit
Elapse(w) ==
    /\ kind[w] = "guard" /\ pc[w] = "idle"
    /\ minutes[w] <= MaxSessionMinutes
    /\ minutes' = [minutes EXCEPT ![w] = @ + 1]
    /\ hist' = [hist EXCEPT ![w].call = "none"]
    /\ UNCHANGED <<guardFrame, created, maxDroplets>>

(***************************************************************************)
(* Direct calls of the DropletController.                                  *)
(***************************************************************************)
Range(q) == {q[i] : i \in DOMAIN q}

\* history: a controller call of `name` starts
Begun(w, name) ==
    [hist[w] EXCEPT !.call = name, !.matched = FALSE, !.requests = 0,
                    !.kept = TRUE, !.repeated = FALSE, !.early = FALSE,
                    !.before = <<>>,
                    !.todo = <<>>, !.tries = [d \in DropletIds |-> 0]]

\* the variables no DropletController method touches
ctlFrame == <<envVars, kind, ret, exitCode, failed, pending, sweepMode,
              guardInstalled, step, results, testsLeft, reports, outer,
              guardVars, sshVars, sigAt>>

\* DropletController(): the token of the environment, the Manager and an
\* empty tracked list, or the ValueError
NewController(w) ==
    /\ kind[w] \in {"controller", "keys"} /\ pc[w] = "new"
    /\ IF ControllerInit(env.token) = "ValueError"
       THEN /\ pc' = [pc EXCEPT ![w] = "failed"]
            /\ exc' = [exc EXCEPT ![w] = "error"]
       ELSE /\ pc' = [pc EXCEPT ![w] = "idle"]
            /\ exc' = [exc EXCEPT ![w] = "none"]
    /\ tracked' = [tracked EXCEPT ![w] = <<>>]
    /\ UNCHANGED <<ctlFrame, provVars, submitted, waited, droplet, doKey, faults,
                   hist, harmed>>

\* controller.create(config, wait=True): the call; Create and
\* WaitForActive are its steps
CallCreate(w) ==
    /\ kind[w] = "controller" /\ pc[w] = "idle"
    /\ submitted[w] < MaxTests
    /\ pc' = [pc EXCEPT ![w] = "create"]
    /\ exc' = [exc EXCEPT ![w] = "none"]
    /\ hist' = [hist EXCEPT ![w] = Begun(w, "create")]
    /\ UNCHANGED <<ctlFrame, provVars, tracked, submitted, waited, droplet, doKey,
                   faults, harmed>>

\* create returns the droplet (the loop's `start` is gone with the frame)
CreateReturns(w) ==
    /\ kind[w] = "controller" /\ pc[w] = "record"
    /\ pc' = [pc EXCEPT ![w] = "idle"]
    /\ waited' = [waited EXCEPT ![w] = 0]
    /\ UNCHANGED <<ctlFrame, exc, provVars, tracked, submitted, droplet,
                   doKey, faults, hist, harmed>>

\* controller.create(config, wait=False): droplet.create(), the append,
\* and the return
CreateNoWait(w) ==
    /\ kind[w] = "controller" /\ pc[w] = "idle"
    /\ submitted[w] < MaxTests
    /\ LET d == <<w, submitted[w] + 1>>
       IN  /\ cloud' = [cloud EXCEPT ![d] = "new"]
           /\ tracked' = [tracked EXCEPT ![w] = Append(@, d)]
           /\ droplet' = [droplet EXCEPT ![w] = d]
    /\ submitted' = [submitted EXCEPT ![w] = @ + 1]
    /\ waited' = [waited EXCEPT ![w] = 0]
    /\ exc' = [exc EXCEPT ![w] = "none"]
    /\ hist' = [hist EXCEPT ![w] = Begun(w, "create_nowait")]
    /\ UNCHANGED <<ctlFrame, pc, keys, doKey, faults, harmed>>

\* history of one droplet.destroy() request for d with answer o
Requested(h, d, o) ==
    [h EXCEPT !.requests = @ + 1,
              !.repeated = @ \/ cloud[d] = "gone",
              !.early = @ \/ cloud[d] = "new"]

\* controller.destroy(droplet) with a handle the caller holds
CallDestroy(w) ==
    /\ kind[w] = "controller" /\ pc[w] = "idle"
    /\ \E d \in Mine(w) :
          /\ cloud[d] # "absent"
          /\ \E o \in DestroyOutcomes(w, d) :
                /\ ControllerDestroy(w, d, o)
                /\ exc' = [exc EXCEPT ![w] = IF Raised(o) THEN "error" ELSE "none"]
                /\ hist' = [hist EXCEPT ![w] =
                               [Requested(Begun(w, "destroy"), d, o) EXCEPT
                                   !.kept = (tracked'[w] = tracked[w])]]
    /\ UNCHANGED <<ctlFrame, pc, keys, submitted, waited, droplet, doKey>>

\* the strings a caller passes to destroy: the name or the id of a droplet
\* it created, or a string that is neither
NameOf(d) == <<"name", d>>
IdOf(d) == <<"id", d>>
DestroyArgs(w) ==
    {NameOf(d) : d \in Mine(w)} \cup {IdOf(d) : d \in Mine(w)}
        \cup {NameOf(Unbound)}

\* destroy(str): the scan of manager.get_all_droplets() for
\* `d.name == droplet or str(d.id) == droplet`
Resolve(s) == {d \in DropletIds : Live(d) /\ (NameOf(d) = s \/ IdOf(d) = s)}

\* a scan without its `else: return`, which goes on to call destroy() on
\* the string
DestroyUnmatchedFallsThrough == "raise"

\* destroy(str): the for loop's `else: return` when nothing matched
DestroyUnmatched == "return"

\* controller.destroy(name_or_id).  The found droplet is a new object of
\* the listing: whether `droplet in self._tracked_droplets` holds for it
\* is the library's equality, either way here
CallDestroyStr(w) ==
    /\ kind[w] = "controller" /\ pc[w] = "idle"
    /\ \E s \in DestroyArgs(w), listed \in BOOLEAN :
          IF ~listed
          THEN \* manager.get_all_droplets() fails
               /\ CanFault(w)
               /\ faults' = [faults EXCEPT ![w] = @ + 1]
               /\ exc' = [exc EXCEPT ![w] = "error"]
               /\ hist' = [hist EXCEPT ![w] = Begun(w, "list_failed")]
               /\ UNCHANGED <<cloud, tracked, harmed>>
          ELSE IF Resolve(s) = {}
          THEN /\ exc' = [exc EXCEPT ![w] =
                             IF DestroyUnmatched = "return" THEN "none"
                             ELSE "error"]
               /\ hist' = [hist EXCEPT ![w] = Begun(w, "destroy_str")]
               /\ UNCHANGED <<cloud, tracked, faults, harmed>>
          ELSE \E d \in Resolve(s), same \in BOOLEAN :
               \E o \in DestroyOutcomes(w, d) :
                  /\ DropletDestroy(w, d, o)
                  /\ tracked' = IF Raised(o) \/ ~same THEN tracked
                                ELSE [tracked EXCEPT ![w] = Remove(@, d)]
                  /\ exc' = [exc EXCEPT ![w] =
                                IF Raised(o) THEN "error" ELSE "none"]
                  /\ hist' = [hist EXCEPT ![w] =
                                 [Requested(Begun(w, "destroy_str"), d, o)
                                    EXCEPT !.matched = TRUE,
                                           !.kept = (tracked'[w] = tracked[w])]]
    /\ UNCHANGED <<ctlFrame, pc, keys, submitted, waited, droplet, doKey>>

\* controller.cleanup(): `for droplet in list(self._tracked_droplets)`
CallCleanup(w) ==
    /\ kind[w] = "controller" /\ pc[w] = "idle"
    /\ pc' = [pc EXCEPT ![w] = "cleanup"]
    /\ exc' = [exc EXCEPT ![w] = "none"]
    /\ hist' = [hist EXCEPT ![w] =
                   [Begun(w, "cleanup") EXCEPT
                       !.todo = tracked[w], !.before = tracked[w]]]
    /\ UNCHANGED <<ctlFrame, provVars, tracked, submitted, waited, droplet, doKey,
                   faults, harmed>>

\* a loop body without try/except
AfterCleanupDestroyNoExcept(o) == IF Raised(o) THEN "raise" ELSE "next"

\* cleanup(): `try: droplet.destroy() except Exception: pass`
AfterCleanupDestroy(o) == "next"

\* cleanup(): one iteration, or after the last one the clear()
CleanupStep(w) ==
    /\ kind[w] = "controller" /\ pc[w] = "cleanup"
    /\ IF hist[w].todo = <<>>
       THEN /\ tracked' = [tracked EXCEPT ![w] = <<>>]
            /\ pc' = [pc EXCEPT ![w] = "idle"]
            /\ hist' = [hist EXCEPT ![w].kept = (tracked[w] = <<>>)]
            /\ UNCHANGED <<exc, cloud, faults, harmed>>
       ELSE LET d == Head(hist[w].todo)
            IN  \E o \in DestroyOutcomes(w, d) :
                  /\ DropletDestroy(w, d, o)
                  /\ hist' = [hist EXCEPT ![w] =
                                 [Requested(hist[w], d, o) EXCEPT
                                     !.todo = Tail(@),
                                     !.tries[d] = @ + 1,
                                     !.swept = @ \cup {d}]]
                  /\ IF AfterCleanupDestroy(o) = "raise"
                     THEN /\ exc' = [exc EXCEPT ![w] = "error"]
                          /\ pc' = [pc EXCEPT ![w] = "idle"]
                     ELSE UNCHANGED <<exc, pc>>
                  /\ UNCHANGED tracked
    /\ UNCHANGED <<ctlFrame, keys, submitted, waited, droplet, doKey>>

\* controller.destroy_all(): manager.get_all_droplets(tag_name=tag), which
\* may fail, then the loop over the listing
CallDestroyAll(w) ==
    /\ kind[w] = "controller" /\ pc[w] = "idle"
    /\ \E listed \in BOOLEAN :
          IF ~listed
          THEN /\ CanFault(w)
               /\ faults' = [faults EXCEPT ![w] = @ + 1]
               /\ exc' = [exc EXCEPT ![w] = "error"]
               /\ hist' = [hist EXCEPT ![w] = Begun(w, "list_failed")]
               /\ UNCHANGED <<pc, pending>>
          ELSE /\ pending' = [pending EXCEPT ![w] = Listed(TestTag)]
               /\ pc' = [pc EXCEPT ![w] = "destroy_all"]
               /\ exc' = [exc EXCEPT ![w] = "none"]
               /\ hist' = [hist EXCEPT ![w] = Begun(w, "destroy_all")]
               /\ UNCHANGED faults
    /\ UNCHANGED <<envVars, kind, ret, exitCode, failed, sweepMode,
                   guardInstalled, step, results, testsLeft, reports, outer,
                   guardVars, sshVars, sigAt, cloud, keys, tracked, submitted,
                   waited, droplet, doKey, harmed>>

\* destroy_all(): one iteration of `for droplet in droplets:
\* droplet.destroy()`, not wrapped, or the return after the last one;
\* self._tracked_droplets is not touched
DestroyAllStep(w) ==
    /\ kind[w] = "controller" /\ pc[w] = "destroy_all"
    /\ IF pending[w] = {}
       THEN /\ pc' = [pc EXCEPT ![w] = "idle"]
            /\ UNCHANGED <<exc, pending, cloud, faults, harmed, hist>>
       ELSE \E d \in pending[w] : \E o \in DestroyOutcomes(w, d) :
               /\ DropletDestroy(w, d, o)
               /\ hist' = [hist EXCEPT ![w] = Requested(hist[w], d, o)]
               /\ IF Raised(o)
                  THEN /\ exc' = [exc EXCEPT ![w] = "error"]
                       /\ pc' = [pc EXCEPT ![w] = "idle"]
                       /\ pending' = [pending EXCEPT ![w] = {}]
                  ELSE /\ pending' = [pending EXCEPT ![w] = @ \ {d}]
                       /\ UNCHANGED <<exc, pc>>
    /\ UNCHANGED <<envVars, kind, ret, exitCode, failed, sweepMode,
                   guardInstalled, step, results, testsLeft, reports, outer,
                   guardVars, sshVars, sigAt, keys, tracked, submitted, waited,
                   droplet, doKey>>

\* controller.get_or_create_ssh_key(public_key, name) with the caller's one
\* public key under either name
CallGetKey(w) ==
    /\ kind[w] = "keys" /\ pc[w] = "idle"
    /\ Len(hist[w].keyRets) < MaxKeyCalls
    /\ \E name \in {KeyName(w), PytestKeyName} : GetOrCreateSSHKey(w, w, name)
    /\ exc' = [exc EXCEPT ![w] = "none"]
    /\ hist' = [hist EXCEPT ![w] =
                   [hist[w] EXCEPT
                       !.call = "get_or_create_ssh_key",
                       !.keyRets = Append(@, doKey'[w]),
                       !.uploads = @ + (IF keys' = keys THEN 0 ELSE 1)]]
    /\ UNCHANGED <<ctlFrame, pc, cloud, tracked, submitted, waited, droplet,
                   faults, harmed>>

(***************************************************************************)
(* Direct calls of one SSHDriver.                                          *)
(***************************************************************************)
\* history: a driver call of `name` starts
Started(w, name) ==
    [hist[w] EXCEPT !.call = name, !.retries = 0, !.attempts = 0, !.sleeps = 0,
                    !.reported = 0, !.preClient = client[w], !.released = 0,
                    !.opened = 0, !.fatal = "none"]

\* the variables no SSHDriver method touches
sshFrame == <<env, images, kind, ret, exitCode, failed, provVars, ctlVars,
              orchVars, guardVars, faults, sigAt, harmed>>

\* connect(timeout, retries): self._client = paramiko.SSHClient(), the
\* key, and the entry of `for attempt in range(retries)`
CallConnect(w) ==
    /\ kind[w] = "ssh" /\ pc[w] = "idle"
    /\ unreleased[w] < MaxConnects
    /\ client' = [client EXCEPT ![w] = "idle"]
    /\ unreleased' = [unreleased EXCEPT ![w] = @ + 1]
    /\ attempt' = [attempt EXCEPT ![w] = 0]
    /\ exc' = [exc EXCEPT ![w] = "none"]
    /\ \E r \in 0..MaxRetries :
          /\ hist' = [hist EXCEPT ![w] =
                         [Started(w, "connect") EXCEPT !.retries = r]]
          /\ pc' = [pc EXCEPT ![w] = IF r = 0 THEN "idle" ELSE "connect"]
    /\ UNCHANGED <<sshFrame, sftp>>

\* connect(): one iteration of the loop.  The attempt succeeds, raises
\* paramiko.SSHException or TimeoutError, or raises another exception
\* (a refused connection is an OSError)
ConnectStep(w) ==
    /\ kind[w] = "ssh" /\ pc[w] = "connect"
    /\ \E o \in {"ok", "ssh_error", "other_error"} :
          LET h == [hist[w] EXCEPT !.attempts = @ + 1]
          IN  CASE o = "ok" ->
                     /\ client' = [client EXCEPT ![w] = "connected"]
                     /\ Goto(w, "idle")
                     /\ hist' = [hist EXCEPT ![w] = h]
                     /\ UNCHANGED attempt
                [] o = "ssh_error" /\ attempt[w] # hist[w].retries - 1 ->
                     /\ attempt' = [attempt EXCEPT ![w] = @ + 1]
                     /\ hist' = [hist EXCEPT ![w] =
                                    [h EXCEPT !.sleeps = @ + 1]]
                     /\ UNCHANGED <<client, procVars>>
                [] o = "ssh_error" /\ attempt[w] = hist[w].retries - 1 ->
                     \* raise ConnectionError(f"Failed to connect after
                     \* {retries} attempts: {e}")
                     /\ hist' = [hist EXCEPT ![w] =
                                    [h EXCEPT !.reported = hist[w].retries,
                                              !.fatal = "connect"]]
                     /\ Raise(w, "error")
                     /\ UNCHANGED <<client, attempt>>
                [] OTHER ->
                     \* the exception is not caught by the loop's except
                     /\ hist' = [hist EXCEPT ![w] =
                                    [h EXCEPT !.fatal = "uncaught"]]
                     /\ Raise(w, "error")
                     /\ UNCHANGED <<client, attempt>>
    /\ UNCHANGED <<env, images, provVars, ctlVars, orchVars, guardVars, faults,
                   sigAt, harmed, unreleased, sftp>>

\* the error of a call that did not succeed: `if not self._client: raise
\* RuntimeError("Not connected")` tests for None only; an SSHClient object
\* whose connect never succeeded passes the test and the library raises
\* its own error for the missing session
ErrorOf(c) ==
    CASE c = "none" -> "not_connected"
      [] c = "idle" -> "no_session"
      [] OTHER -> "remote"

\* exec(command): RuntimeError without a client, else the command runs or
\* the channel raises
CallExec(w) ==
    /\ kind[w] = "ssh" /\ pc[w] = "idle"
    /\ \E o \in {"ok", "raise"} :
          /\ client[w] # "connected" => o = "raise"
          /\ exc' = [exc EXCEPT ![w] = IF o = "ok" THEN "none" ELSE "error"]
          /\ hist' = [hist EXCEPT ![w] =
                         [Started(w, "exec") EXCEPT
                             !.fatal = IF o = "ok" THEN "none"
                                       ELSE ErrorOf(client[w])]]
    /\ UNCHANGED <<sshFrame, pc, sshVars, sftp>>

\* a close() that releases on every call
CloseReleasesAlways(c) == TRUE

\* close(): `if self._client:`
CloseReleases(c) == c # "none"

\* close(): self._client.close(); self._client = None
CallClose(w) ==
    /\ kind[w] = "ssh" /\ pc[w] = "idle"
    /\ IF CloseReleases(client[w])
       THEN /\ unreleased' = [unreleased EXCEPT ![w] = @ - 1]
            /\ client' = [client EXCEPT ![w] = "none"]
            /\ hist' = [hist EXCEPT ![w] =
                           [Started(w, "close") EXCEPT !.released = 1,
                                                       !.closed = TRUE]]
       ELSE /\ UNCHANGED <<unreleased, client>>
            /\ hist' = [hist EXCEPT ![w] = Started(w, "close")]
    /\ exc' = [exc EXCEPT ![w] = "none"]
    /\ UNCHANGED <<sshFrame, pc, attempt, sftp>>

Transfers == {"upload", "upload_content", "download"}

\* upload / upload_content / download: the `if not self._client` check and
\* sftp = self._client.open_sftp(), which raises on a client without a
\* live session
CallTransfer(w) ==
    /\ kind[w] = "ssh" /\ pc[w] = "idle"
    /\ \E op \in Transfers, o \in {"opened", "open_fails"} :
          /\ client[w] # "connected" => o = "open_fails"
          /\ IF o = "opened"
             THEN /\ sftp' = [sftp EXCEPT ![w] = @ + 1]
                  /\ pc' = [pc EXCEPT ![w] = "transfer"]
                  /\ exc' = [exc EXCEPT ![w] = "none"]
                  /\ hist' = [hist EXCEPT ![w] =
                                 [Started(w, op) EXCEPT !.opened = 1]]
             ELSE /\ exc' = [exc EXCEPT ![w] = "error"]
                  /\ hist' = [hist EXCEPT ![w] =
                                 [Started(w, op) EXCEPT
                                     !.fatal = ErrorOf(client[w])]]
                  /\ UNCHANGED <<sftp, pc>>
    /\ UNCHANGED <<sshFrame, sshVars>>

\* a transfer that closes its channel only after a successful transfer
ChannelClosedOnSuccessOnly(o) == o = "ok"

\* `try: sftp.put(...) finally: sftp.close()`: the channel is closed on
\* both exits
ChannelClosed(o) == TRUE

\* the transfer itself, then the finally block
TransferStep(w) ==
    /\ kind[w] = "ssh" /\ pc[w] = "transfer"
    /\ \E o \in {"ok", "fail"} :
          /\ sftp' = [sftp EXCEPT ![w] = IF ChannelClosed(o) THEN @ - 1 ELSE @]
          /\ exc' = [exc EXCEPT ![w] = IF o = "ok" THEN "none" ELSE "error"]
    /\ pc' = [pc EXCEPT ![w] = "idle"]
    /\ UNCHANGED <<sshFrame, sshVars, hist>>

(***************************************************************************)
(* The OS catalog.  A snapshot map is a set of <<name, image>> pairs with  *)
(* one pair per name.                                                      *)
(***************************************************************************)
SnapshotNames == TargetNames \cup {"unknown-os"}
SnapshotMaps == {{<<n, "snap-123">> : n \in ns} : ns \in SUBSET SnapshotNames}

Overridden(m, n) == \E p \in m : p[1] = n
Lookup(m, n) == (CHOOSE p \in m : p[1] = n)[2]

\* _load_snapshots: `for target in self.targets: if target.name in
\* self._snapshots: target.image = self._snapshots[target.name]`.
\* self.targets is DEFAULT_TARGETS.copy(), a new list of the same OSTarget
\* objects, so the assignment writes the module's targets
LoadSnapshots(m) ==
    [n \in TargetNames |-> IF Overridden(m, n) THEN Lookup(m, n) ELSE images[n]]

\* get(name).image of any catalog: the image of the shared target object
GetImage(n) == images[n]

\* OSMatrix(snapshot_file): no file argument, a path that does not exist,
\* or a file holding the map m
NewOSMatrix(w) ==
    /\ kind[w] = "matrix" /\ pc[w] = "idle"
    /\ hist[w].catalogs < MaxCatalogs
    /\ \E file \in {"none", "missing", "exists"}, m \in SnapshotMaps :
          /\ file # "exists" => m = {}
          /\ images' = IF file = "exists" THEN LoadSnapshots(m) ELSE images
          /\ hist' = [hist EXCEPT ![w].call = "os_matrix",
                                  ![w].catalogs = @ + 1,
                                  ![w].override = m]
    /\ UNCHANGED <<env, sftp, procVars, provVars, ctlVars, orchVars, guardVars,
                   sshVars, faults, sigAt, harmed>>

GuardCall(w) ==
    \/ NewCostGuard(w)
    \/ CallCheckDropletLimit(w)
    \/ CallCheckTimeout(w)
    \/ CallRecordDroplet(w)
    \/ CallGetSummary(w)
    \/ Elapse(w)

ControllerCall(w) ==
    \/ NewController(w)
    \/ CallCreate(w)
    \/ Create(w)
    \/ WaitForActive(w)
    \/ CreateReturns(w)
    \/ CreateNoWait(w)
    \/ CallDestroy(w)
    \/ CallDestroyStr(w)
    \/ CallDestroyAll(w)
    \/ DestroyAllStep(w)
    \/ CallCleanup(w)
    \/ CleanupStep(w)
    \/ CallGetKey(w)

DriverCall(w) ==
    \/ CallConnect(w)
    \/ ConnectStep(w)
    \/ CallExec(w)
    \/ CallClose(w)
    \/ CallTransfer(w)
    \/ TransferStep(w)

CallerNext ==
    \/ \E w \in Workers : GuardCall(w)
    \/ \E w \in Workers : ControllerCall(w)
    \/ \E w \in Workers : DriverCall(w)
    \/ \E w \in Workers : NewOSMatrix(w)
    \/ \E d \in DropletIds : ProviderActivate(d)

CallerSpec == InitCaller /\ [][CallerNext]_vars

\* _wait_for_active is synchronous code: each droplet.load() returns and
\* the loop goes on to its next iteration
CallerFairSpec == CallerSpec /\ \A w \in Workers : WF_vars(WaitForActive(w))

(***************************************************************************)
(* Claims.                                                                 *)
(***************************************************************************)
Scripts == {w \in Workers : kind[w] \in ScriptKinds}
Ended(w) == pc[w] = "exit"
Unsignalled(w) == sigAt[w] \in {"none", "masked"}

\* C1: once a script's cleanup block has completed, no instance whose
\* creation the run submitted still exists at the provider, whatever the
\* outcome of the run (no provider call failed, no signal arrived).
C1_NoInstanceAfterCleanup ==
    \A w \in Scripts :
        (hist[w].cleanup = "done" /\ faults[w] = 0 /\ Unsignalled(w))
            => \A d \in Mine(w) : ~Live(d)

\* C2: a script that has started controller.create does not end before its
\* cleanup block was entered, on every exit path (no signal arrived).
C2_CleanupBeforeExit ==
    \A w \in Scripts :
        (Ended(w) /\ submitted[w] > 0 /\ Unsignalled(w))
            => hist[w].cleanup # "none"

\* C3: a failing destroy inside the cleanup block is swallowed: it does not
\* leave the block, and the credential revoke is still attempted.
C3_CleanupFailureSwallowed ==
    \A w \in Scripts :
        (Ended(w) /\ hist[w].destroyTried /\ Unsignalled(w))
            => /\ ~hist[w].destroyEscaped
               /\ HasKey(kind[w]) => hist[w].revokeTried

\* C4: when SIGINT or SIGTERM has ended a process, no instance carrying the
\* session's tag is left (no provider call failed).
C4_SignalDestroysTagged ==
    \A w \in Workers :
        (Ended(w) /\ ~Unsignalled(w) /\ faults[w] = 0)
            => Listed(TestTag) = {}

\* C5: once the SessionGuard is constructed a signal is taken by its
\* handler, which calls destroy_all and only then ends the process with
\* status 1, also when destroy_all failed.
C5_HandlerSweepsThenExits ==
    \A w \in Workers :
        /\ guardInstalled[w] => sigAt[w] \in {"none", "masked", "guarded"}
        /\ sigAt[w] = "guarded" =>
              /\ pc[w] \in {"sweep_list", "sweep_loop", "exit"}
              /\ sweepMode[w] = "handler"
              /\ Ended(w) => (hist[w].handlerSweep /\ exitCode[w] = "1")

C5_Witness ==
    \E w \in Workers :
        /\ Ended(w) /\ sigAt[w] = "guarded" /\ exitCode[w] = "1"
        /\ hist[w].sweepFailed
        /\ Listed(TestTag) # {}

\* C6: no cleanup action of a worker destroys an instance or a key record
\* that another still-running worker created or is using.
C6_NoCrossWorkerDestroy ==
    harmed.droplets = {} /\ harmed.keys = {}

\* C7: when a run has ended (not by a signal), no connection its SSHDriver
\* opened is still open.
C7_ConnectionReleased ==
    \A w \in Workers : (Ended(w) /\ Unsignalled(w)) => client[w] # "connected"

\* C8: a script's exit code is 0 if and only if no fatal failure occurred
\* and every recorded check passed (no provider call failed, no signal).
C8_ExitCodeIffAllPassed ==
    \A w \in Scripts :
        (Ended(w) /\ submitted[w] > 0 /\ faults[w] = 0 /\ Unsignalled(w))
            => (exitCode[w] = "0"
                    <=> (hist[w].fatal = "none" /\ AllPassed(results[w])))

\* C9: a check whose command returns non-zero is recorded as failed and the
\* sequence goes on: one result per recorded check so far, every check was
\* run once the sequence is left without an exception, and the cleanup
\* block is reached.
Checkers == {w \in Workers : kind[w] \in {"single", "comp"}}
StepsDone(w) == SubSeq(Steps(kind[w]), 1, step[w] - 1)
C9_FailedCheckDoesNotAbort ==
    \A w \in Checkers :
        /\ ~hist[w].mispass
        /\ hist[w].fatal # "connect" => Len(results[w]) = NumRec(StepsDone(w))
        /\ (hist[w].nonzero /\ pc[w] # "checks" /\ hist[w].fatal = "none"
                /\ Unsignalled(w))
              => /\ step[w] = Len(Steps(kind[w])) + 1
                 /\ Len(results[w]) = NumRec(Steps(kind[w]))
        /\ (hist[w].nonzero /\ Ended(w) /\ Unsignalled(w))
              => hist[w].cleanup # "none"

C9_Witness ==
    \E w \in Checkers :
        /\ Ended(w) /\ Unsignalled(w) /\ hist[w].nonzero
        /\ ~results[w][1] /\ results[w][Len(results[w])]
        /\ Len(results[w]) = NumRec(Steps(kind[w]))
        /\ hist[w].cleanup = "done"

\* C10: a creation request is submitted only after the run's CostGuard was
\* consulted and check_droplet_limit() and check_timeout() returned true.
C10_CreateOnlyAfterGuard ==
    \A w \in Workers : ~hist[w].unguarded

\* a caller of the CostGuard between two calls
Guards == {w \in Workers : kind[w] = "guard" /\ pc[w] = "idle"}
PureGuardCalls == {"check_droplet_limit", "check_timeout", "get_summary"}

\* C11 (as stated): check_droplet_limit() is true exactly when created is
\* below the limit the CostGuard was constructed with.
C11_LimitIsConstructorValue ==
    \A w \in Guards :
        hist[w].call = "check_droplet_limit"
            => hist[w].retBool = (created[w] < hist[w].ctorMax)

\* C11 (amended): record_droplet() adds exactly 1, no call decreases the
\* counter, and check_droplet_limit() is true exactly when created is below
\* the guard's effective limit: MAX_TEST_DROPLETS when it is set, else the
\* constructor's value (so with the constructor's 1 and no override: true
\* before any record, false after one).
C11_CounterAndEffectiveLimit ==
    \A w \in Guards :
        /\ maxDroplets[w] = PostInit(hist[w].ctorMax)
        /\ created[w] >= hist[w].pre.created
        /\ hist[w].call = "record_droplet"
              => created[w] = hist[w].pre.created + 1
        /\ hist[w].call = "check_droplet_limit"
              => /\ hist[w].retBool = (created[w] < PostInit(hist[w].ctorMax))
                 /\ (env.maxDroplets = EnvUnset /\ hist[w].ctorMax = 1)
                       => hist[w].retBool = (created[w] = 0)

C11_Witness ==
    \E w \in Guards :
        /\ env.maxDroplets = EnvUnset /\ hist[w].ctorMax = 1
        /\ hist[w].call = "check_droplet_limit"
        /\ created[w] = 1 /\ ~hist[w].retBool

\* C12: check_timeout() is true exactly while the elapsed minutes are below
\* max_session_minutes, false at and after the limit, and never true again
\* once it was false.
C12_TimeoutBoundary ==
    \A w \in Guards :
        hist[w].call = "check_timeout"
            => /\ hist[w].retBool = (minutes[w] < MaxSessionMinutes)
               /\ minutes[w] >= MaxSessionMinutes => ~hist[w].retBool
               /\ hist[w].timedOut => ~hist[w].retBool

C12_Witness ==
    \E w \in Guards :
        /\ hist[w].call = "check_timeout"
        /\ minutes[w] = MaxSessionMinutes
        /\ ~hist[w].retBool

\* C13: the CostGuard's methods are advisory: none raises, the checks and
\* the summary leave counter, limit and start time as they were, and
\* record_droplet() counts also at and above the limit.
C13_GuardIsAdvisory ==
    \A w \in Guards :
        /\ exc[w] = "none"
        /\ hist[w].call \in PureGuardCalls => GuardState(w) = hist[w].pre
        /\ hist[w].call = "record_droplet"
              => GuardState(w) =
                    [hist[w].pre EXCEPT !.created = hist[w].pre.created + 1]

C13_Witness ==
    \E w \in Guards :
        /\ hist[w].call = "record_droplet"
        /\ hist[w].pre.created >= hist[w].pre.max
        /\ created[w] > maxDroplets[w]

\* a direct caller of the DropletController
Controllers == {w \in Workers : kind[w] = "controller"}
Newest(w) == <<w, submitted[w]>>

\* C14: create(wait=True) returns the droplet only after a poll saw it
\* active; otherwise it raises the TimeoutError that names the droplet, and
\* it never returns a droplet that is not active.  create(wait=False)
\* returns the submitted droplet without polling.
C14_CreateReturnsOnlyActive ==
    \A w \in Controllers :
        /\ pc[w] = "record"
              => /\ exc[w] = "none"
                 /\ droplet[w] = Newest(w) /\ cloud[Newest(w)] = "active"
        /\ (pc[w] = "idle" /\ hist[w].call = "create")
              => IF exc[w] = "none"
                 THEN droplet[w] = Newest(w) /\ cloud[Newest(w)] = "active"
                 ELSE /\ hist[w].fatal = "timeout" /\ hist[w].named = Newest(w)
                      /\ waited[w] = MaxWait /\ cloud[Newest(w)] # "absent"
                      /\ droplet[w] # Newest(w)
        /\ hist[w].call = "create_nowait"
              => /\ pc[w] = "idle" /\ exc[w] = "none"
                 /\ droplet[w] = Newest(w) /\ waited[w] = 0
                 /\ hist[w].requests = 0

C14_Witness ==
    \E w \in Controllers :
        /\ pc[w] = "idle" /\ hist[w].call = "create" /\ exc[w] = "error"
        /\ hist[w].named = Newest(w) /\ cloud[Newest(w)] = "new"
        /\ submitted[w] = 2 /\ droplet[w] = <<w, 1>> /\ cloud[<<w, 1>>] = "active"

\* C15 (as stated): every instance submitted through create, also one whose
\* create timed out, is in the tracked list as long as it exists.
C15_TrackedWhileItExists ==
    \A w \in Controllers : \A d \in Mine(w) :
        Live(d) => d \in Range(tracked[w])

\* C15 (amended): every instance submitted through create, also one whose
\* create timed out, is in the tracked list as long as it exists and no
\* cleanup() has tried to destroy it; cleanup() sends a destroy request for
\* every tracked instance before it clears the list.
C15_TrackedUntilDestroyedOrSwept ==
    \A w \in Controllers :
        /\ \A d \in Mine(w) :
              (Live(d) /\ d \notin hist[w].swept) => d \in Range(tracked[w])
        /\ (hist[w].call = "cleanup" /\ pc[w] = "idle")
              => \A d \in Range(hist[w].before) :
                    hist[w].tries[d] >= 1 /\ d \in hist[w].swept

C15_Witness ==
    \E w \in Controllers :
        /\ pc[w] = "idle" /\ hist[w].call = "create" /\ exc[w] = "error"
        /\ hist[w].fatal = "timeout"
        /\ Newest(w) \in Range(tracked[w]) /\ Live(Newest(w))
        /\ Newest(w) \notin hist[w].swept

\* C16: once an instance has been destroyed, no later destroy call for it
\* (by handle, name or id) sends another destroy request or raises.
C16_DestroyIdempotent ==
    \A w \in Controllers :
        hist[w].call \in {"destroy", "destroy_str"}
            => ~hist[w].repeated

\* C17: destroy(s) with a string that matches no listed instance raises
\* nothing, sends no destroy request and leaves the tracked list as it was.
C17_UnmatchedDestroyIsNoOp ==
    \A w \in Controllers :
        (hist[w].call = "destroy_str" /\ ~hist[w].matched)
            => /\ exc[w] = "none"
               /\ hist[w].requests = 0
               /\ hist[w].kept

C17_Witness ==
    \E w \in Controllers :
        /\ hist[w].call = "destroy_str" /\ ~hist[w].matched
        /\ exc[w] = "none"
        /\ \E d \in Mine(w) : Live(d) /\ d \in Range(tracked[w])
        /\ \E d \in Mine(w) : cloud[d] = "gone"

\* C18: an instance that is already gone when destroy_all sends its destroy
\* request causes no error and does not stop the sweep.
C18_SweepToleratesGone ==
    \A w \in Workers : ~hist[w].sweepGone

\* C19: cleanup() sends exactly one destroy request for every instance of
\* the tracked list, whichever requests fail; it raises nothing and the
\* list is empty when it returns.
C19_CleanupBestEffort ==
    \A w \in Controllers :
        /\ pc[w] = "cleanup"
              => \A d \in DropletIds : hist[w].tries[d] <= 1
        /\ (hist[w].call = "cleanup" /\ pc[w] = "idle")
              => /\ exc[w] = "none"
                 /\ tracked[w] = <<>>
                 /\ \A d \in DropletIds :
                       hist[w].tries[d] =
                          (IF d \in Range(hist[w].before) THEN 1 ELSE 0)

C19_Witness ==
    \E w \in Controllers :
        /\ hist[w].call = "cleanup" /\ pc[w] = "idle"
        /\ Len(hist[w].before) = 2
        /\ faults[w] > 0
        /\ \E d \in Range(hist[w].before) : Live(d)
        /\ \E d \in Range(hist[w].before) : cloud[d] = "gone"

\* C20: two get_or_create_ssh_key calls with the same public key return the
\* same key record and upload at most once.
C20_SameRecordForSameContent ==
    \A w \in Workers :
        kind[w] = "keys"
            => /\ hist[w].uploads <= 1
               /\ \A i, j \in DOMAIN hist[w].keyRets :
                     hist[w].keyRets[i] = hist[w].keyRets[j]

Drivers == {w \in Workers : kind[w] = "ssh"}

\* C21: a connect(timeout, retries) whose attempts all fail makes exactly
\* `retries` attempts with retries - 1 waits and raises a connection error
\* that reports `retries`; a connect whose attempt k succeeds returns after
\* k attempts and k - 1 waits; for every `retries` and every failure.
C21_ExactlyRetriesAttempts ==
    \A w \in Drivers :
        (hist[w].call = "connect" /\ pc[w] = "idle")
            => IF client[w] = "connected"
               THEN /\ exc[w] = "none"
                    /\ hist[w].attempts >= 1
                    /\ hist[w].attempts <= hist[w].retries
                    /\ hist[w].sleeps = hist[w].attempts - 1
               ELSE /\ exc[w] = "error"
                    /\ hist[w].attempts = hist[w].retries
                    /\ hist[w].sleeps = hist[w].retries - 1
                    /\ hist[w].reported = hist[w].retries

\* C22: a driver never holds more than one connection object that has not
\* been released, whatever calls are made on it.
C22_AtMostOneUnreleased ==
    \A w \in Drivers : unreleased[w] <= 1

\* C23: close() releases the client the driver holds and leaves the driver
\* without a client; on a driver without a client it makes no release call;
\* it never raises.
C23_CloseIdempotent ==
    \A w \in Drivers :
        (hist[w].call = "close" /\ pc[w] = "idle")
            => /\ client[w] = "none"
               /\ exc[w] = "none"
               /\ hist[w].released =
                     (IF hist[w].preClient = "none" THEN 0 ELSE 1)

C23_Witness ==
    \E w \in Drivers :
        /\ hist[w].call = "close" /\ pc[w] = "idle"
        /\ hist[w].preClient = "none" /\ hist[w].released = 0
        /\ hist[w].closed /\ unreleased[w] = 0

\* C24: a transfer operation never has more than one channel open, and no
\* channel is open when upload, upload_content or download has returned or
\* raised, also when the transfer failed or the channel could not be opened.
C24_ChannelReleased ==
    \A w \in Drivers :
        /\ sftp[w] <= 1
        /\ pc[w] = "idle" => sftp[w] = 0
        /\ pc[w] = "transfer" => sftp[w] = 1 /\ hist[w].opened = 1

C24_Witness ==
    \E w \in Drivers :
        /\ pc[w] = "idle" /\ hist[w].call = "download"
        /\ hist[w].opened = 1 /\ exc[w] = "error"
        /\ sftp[w] = 0

C26_OneReportAfterCleanup ==
    \A w \in Scripts :
        WritesReport(kind[w]) =>
            /\ reports[w] <= 1
            /\ reports[w] = 1 => hist[w].cleanup = "done"
            /\ (Ended(w) /\ hist[w].cleanup # "none" /\ Unsignalled(w)
                  /\ faults[w] = 0 /\ hist[w].fatal \in {"none", "connect"})
                  => reports[w] = 1

\* C27: in a catalog constructed with an override map, the image of a
\* target named in the map is the map's value and the image of every other
\* target is its built-in default; names of the map that match no target
\* are ignored; without an override file every image is the default.
C27_OverrideExactlyNamed ==
    \A w \in Workers :
        (kind[w] = "matrix" /\ hist[w].call = "os_matrix")
            => \A n \in TargetNames :
                  GetImage(n) = IF Overridden(hist[w].override, n)
                                THEN Lookup(hist[w].override, n)
                                ELSE DefaultImage(n)

\* history: some instance is destroyed in this step
SomeDestroyed == \E d \in DropletIds : Live(d) /\ cloud'[d] = "gone"

\* C28: estimate_cost() is created x unit cost x time since the session
\* start: 0 while nothing has been recorded, and a step that destroys an
\* instance neither changes the guard's counter nor lowers the estimate.
C28_CostChargesWholeSession ==
    [][\A w \in Workers :
          /\ EstimateCost(w) = created[w] * minutes[w]
          /\ created[w] = 0 => EstimateCost(w) = 0
          /\ SomeDestroyed => /\ created'[w] = created[w]
                              /\ EstimateCost(w)' >= EstimateCost(w)]_vars

C28_Witness ==
    \E w \in Workers :
        /\ kind[w] = "pytest" /\ created[w] >= 1 /\ minutes[w] >= 1
        /\ \E d \in Mine(w) : cloud[d] = "gone"
        /\ \A d \in Mine(w) : ~Live(d)
        /\ EstimateCost(w) >= 1

\* C29: the controller sends a destroy request only for an instance that
\* has become active, and after an instance has been destroyed it sends no
\* further request for it, does not poll it and does not return it from
\* create as active.
C29_LifecycleOrder ==
    \A w \in Controllers :
        /\ ~hist[w].early
        /\ ~hist[w].repeated
        /\ hist[w].fatal # "create"
        /\ (hist[w].call = "create" /\ pc[w] = "idle" /\ exc[w] = "none")
              => cloud[Newest(w)] # "gone"

\* C30: create(config, wait=True) terminates: a caller inside the polling
\* loop eventually leaves it, with the droplet or with the timeout error,
\* and the loop makes no more than timeout / 5 s polls that see the
\* instance not yet active.
C30_CreateTerminates ==
    /\ [](\A w \in Controllers : waited[w] <= MaxWait)
    /\ \A w \in Workers :
          (kind[w] = "controller" /\ pc[w] = "wait") ~> (pc[w] # "wait")

C30_Witness ==
    \E w \in Controllers :
        /\ pc[w] = "idle" /\ hist[w].call = "create"
        /\ hist[w].fatal = "timeout" /\ exc[w] = "error"
        /\ waited[w] = MaxWait /\ cloud[Newest(w)] = "new"

\* C31: exec, upload, upload_content and download called on a driver
\* without an established connection (never connected, closed, connect
\* failed, or connect(retries=0)) raise the 'Not connected' error and open
\* no channel.
C31_NotConnectedError ==
    \A w \in Drivers :
        (hist[w].call \in {"exec"} \cup Transfers /\ pc[w] = "idle"
           /\ hist[w].preClient # "connected")
            => /\ exc[w] = "error"
               /\ hist[w].fatal = "not_connected"
               /\ hist[w].opened = 0

\* C32: a run revokes at session end only a credential record it uploaded
\* itself: a record that already existed at the provider when
\* get_or_create_ssh_key matched it is still there after the run's revoke,
\* and the record handed to a caller carries the content the caller asked
\* for (a worker asks for its own public key).
C32_RevokesOnlyOwnKey ==
    \A w \in Workers :
        /\ doKey[w] # NoKey => doKey[w].content = w
        /\ (hist[w].revokeTried /\ doKey[w].id = PreKey.id) => PreKey \in keys

\* C33: image overrides are confined to the catalog that loaded them:
\* constructing a catalog never changes the built-in target table, hence
\* the image an earlier catalog returns, and a catalog constructed without
\* overrides returns the built-in default image of every target.
C33_OverridesConfined ==
    [][\A w \in Workers :
          (kind[w] = "matrix" /\ hist'[w].catalogs = hist[w].catalogs + 1)
              => /\ images' = images
                 /\ hist'[w].override = {}
                       => \A n \in TargetNames : images'[n] = DefaultImage(n)]_vars

\* C34: a pytest worker, whose droplet fixture consults check_droplet_limit
\* and check_timeout before every create and calls record_droplet after
\* create returns, never submits more creation requests to the provider
\* than max_droplets, whether its creates succeed or time out.
C34_RequestsWithinLimit ==
    \A w \in Workers :
        kind[w] = "pytest" => submitted[w] <= maxDroplets[w]

\* C35: whenever a controller is between calls, its tracked list holds no
\* instance that the controller has already destroyed (by destroy with a
\* handle, a name or an id, by destroy_all or by cleanup), and a cleanup
\* call has sent no destroy request for an instance that was already
\* destroyed.
C35_TrackedNotDestroyed ==
    \A w \in Controllers :
        pc[w] = "idle"
            => /\ \A d \in Range(tracked[w]) : cloud[d] # "gone"
               /\ hist[w].call = "cleanup" => ~hist[w].repeated

====
